---- MODULE Spec2Model ----
(***************************************************************************)
(* Parametrization layer of nevergrad: the Array leaf and ParametersList   *)
(* of nevergrad/instrumentation/parameter.py and the Tuple and             *)
(* Instrumentation containers of nevergrad/parametrization/container.py.   *)
(*                                                                         *)
(* numpy arrays are objects: a node holds a REFERENCE to its array, so the *)
(* model keeps a heap of arrays and every node field _value is a heap      *)
(* reference.  Floating-point numbers are modelled as exact fractions      *)
(* extended with the IEEE values +inf, -inf and nan (division by zero in   *)
(* numpy yields those, it does not raise); rounding error is below the     *)
(* model.                                                                  *)
(***************************************************************************)
EXTENDS Integers, Sequences, FiniteSets, TLC

VARIABLES
    arr,        \* Array nodes: ArrIds -> [alive, shape, sigma, recombination, _value, parent]
    heap,       \* numpy arrays: Refs -> [shape, data]
    last,       \* the last call made: its name, outcome (ok or the exception raised) and result
    parameters, \* ParametersList._parameters: one entry per key "0", "1", ..., a node or a constant
    objs        \* Instrumentation objects: ObjIds -> [alive, args, kwargs, _compatibility_, checkers]

vars == <<arr, heap, last, parameters, objs>>

(***************************************************************************)
(* Bounds of the model                                                     *)
(***************************************************************************)
\* number of Array nodes that may be alive at once
NumArrays == 2
\* recombine is explored while every element of the result keeps a
\* denominator of at most MaxDen
MaxDen == 1
\* number of Instrumentation objects that may exist at once: the instance,
\* its memoized copy and one child being checked
MaxObjs == 3
\* number of constraint checkers registered on an Instrumentation
MaxCheckers == 1
\* length of the longest list handed to the ParametersList value setter
MaxListLen == 4

ArrIds == 1..NumArrays
Refs == 1..NumArrays

(***************************************************************************)
(* Numbers: fractions n/d in lowest terms with d > 0; d = 0 encodes the    *)
(* IEEE specials: 1/0 is +inf, -1/0 is -inf, 0/0 is nan.                   *)
(***************************************************************************)
Abs(x) == IF x < 0 THEN -x ELSE x
Sgn(x) == IF x < 0 THEN -1 ELSE IF x > 0 THEN 1 ELSE 0

RECURSIVE GCD(_, _)
GCD(a, b) == IF b = 0 THEN a ELSE GCD(b, a % b)

Frac(n, d) ==
    IF d = 0 THEN [n |-> Sgn(n), d |-> 0]
    ELSE LET g == GCD(Abs(n), Abs(d))
             s == IF d < 0 THEN -1 ELSE 1
         IN  [n |-> (s * n) \div g, d |-> (s * d) \div g]

F(n) == [n |-> n, d |-> 1]
NaN == [n |-> 0, d |-> 0]
IsNaN(x) == x.d = 0 /\ x.n = 0
IsInf(x) == x.d = 0 /\ x.n # 0
IsFinite(x) == x.d # 0

FMul(a, b) == Frac(a.n * b.n, a.d * b.d)
FRecip(b) ==
    IF b.d = 0 THEN (IF b.n = 0 THEN NaN ELSE F(0))
    ELSE Frac(b.d, b.n)
FDiv(a, b) == FMul(a, FRecip(b))
FAdd(a, b) ==
    IF IsNaN(a) \/ IsNaN(b) THEN NaN
    ELSE IF IsInf(a) /\ IsInf(b) THEN (IF a.n = b.n THEN a ELSE NaN)
    ELSE IF IsInf(a) THEN a
    ELSE IF IsInf(b) THEN b
    ELSE Frac(a.n * b.d + b.n * a.d, a.d * b.d)

\* IEEE equality of two numbers: nan is equal to nothing, itself included
FEq(a, b) == ~IsNaN(a) /\ ~IsNaN(b) /\ a = b
\* elementwise equality of two vectors (numpy.array_equal)
VecEq(u, v) == Len(u) = Len(v) /\ \A i \in 1..Len(u) : FEq(u[i], v[i])

InRange(x) == x.d <= MaxDen

RECURSIVE Prod(_)
Prod(s) == IF s = <<>> THEN 1 ELSE Head(s) * Prod(Tail(s))
\* number of elements of an array of a given shape
Size(shape) == Prod(shape)

\* elementwise arithmetic on flat vectors
RECURSIVE VecScale(_, _)
VecScale(s, v) ==
    IF v = <<>> THEN <<>> ELSE <<FMul(s, Head(v))>> \o VecScale(s, Tail(v))
RECURSIVE VecDiv(_, _)
VecDiv(v, s) ==
    IF v = <<>> THEN <<>> ELSE <<FDiv(Head(v), s)>> \o VecDiv(Tail(v), s)
RECURSIVE VecAdd(_, _)
VecAdd(u, v) ==
    IF u = <<>> THEN <<>> ELSE <<FAdd(Head(u), Head(v))>> \o VecAdd(Tail(u), Tail(v))
RECURSIVE VecSum(_)
VecSum(vs) == IF Len(vs) = 1 THEN vs[1] ELSE VecAdd(vs[1], VecSum(Tail(vs)))
\* numpy.mean(vectors, axis=0) of a non-empty list of vectors of one length
NpSum(vs) == VecSum(vs)
NpMean(vs) == VecDiv(VecSum(vs), F(Len(vs)))

(***************************************************************************)
(* Inputs                                                                  *)
(***************************************************************************)
Shapes == {<<1>>, <<2>>}
Recombinations == {"average", "crossover"}
\* what a caller may hand to the value setter: a fresh numpy array, or a list
NdArray(shape, data) == [kind |-> "ndarray", shape |-> shape, data |-> data]
PyList(data) == [kind |-> "list", shape |-> <<Len(data)>>, data |-> data]

(***************************************************************************)
(* Array (nevergrad/instrumentation/parameter.py)                          *)
(***************************************************************************)
NoArray == [alive |-> FALSE, shape |-> <<>>, sigma |-> F(0), recombination |-> "",
            _value |-> 0, parent |-> 0]
NoStorage == [shape |-> <<>>, data |-> <<>>]
NoCall == [op |-> "init", outcome |-> "ok", ret |-> <<>>]

RECURSIVE ZeroVec(_)
ZeroVec(n) == IF n = 0 THEN <<>> ELSE <<F(0)>> \o ZeroVec(n - 1)
\* numpy.zeros(shape)
Zeros(shape) == [shape |-> shape, data |-> ZeroVec(Size(shape))]

\* Parameter._get_parameter_value(name) for a fixed (non-Parameter) hyper-parameter
GetParameterValue(a, name) == arr[a][name]

\* the value getter: the stored array itself, no rescaling
ArrayValue(a) == heap[arr[a]._value]

\* to_std_data: (self._value / sigma).ravel()
StdData(value, sigma) == VecDiv(value.data, sigma)
ToStdDataMul(a) == VecScale(GetParameterValue(a, "sigma"), ArrayValue(a).data)
ToStdData(a) == StdData(ArrayValue(a), GetParameterValue(a, "sigma"))

\* sigma * data, the flat contents with_std_data reshapes
ScaledNoSigma(a, data) == data
Scaled(a, data) == VecScale(GetParameterValue(a, "sigma"), data)

\* ndarray.reshape(shape) succeeds exactly when the sizes agree
ReshapeOk(data, shape) == Len(data) = Size(shape)

\* the checks of the value setter: "ok", or the exception raised
SetterNoShapeCheck(a, v) ==
    IF v.kind # "ndarray" THEN "TypeError" ELSE "ok"
SetterOutcome(a, v) ==
    IF v.kind # "ndarray" THEN "TypeError"
    ELSE IF ArrayValue(a).shape # v.shape THEN "ValueError"
    ELSE "ok"
\* the same checks against the array a node holds in a given store
SetterCheck(stored, v) ==
    IF v.kind # "ndarray" THEN "TypeError"
    ELSE IF stored.shape # v.shape THEN "ValueError"
    ELSE "ok"

\* a reference for a new numpy array bound to node a: the least one no other
\* node holds (an array nobody references is reclaimed)
UsedByOthers(ar, a) == {ar[b]._value : b \in {x \in ArrIds \ {a} : ar[x].alive}}
LeastOf(free) == CHOOSE r \in free : \A q \in free : r <= q
FreshRef(ar, a) == LeastOf(Refs \ UsedByOthers(ar, a))
Collect(newarr, newheap) ==
    [r \in Refs |->
        IF \E b \in ArrIds : newarr[b].alive /\ newarr[b]._value = r
        THEN newheap[r] ELSE NoStorage]

\* self._value = <a new array>
BoundTo(ar, hp, a, r, storage) ==
    [arr |-> [ar EXCEPT ![a]._value = r],
     heap |-> Collect([ar EXCEPT ![a]._value = r], [hp EXCEPT ![r] = storage])]
Rebound(ar, hp, a, storage) == BoundTo(ar, hp, a, FreshRef(ar, a), storage)
Store(st) == arr' = st.arr /\ heap' = st.heap
Rebind(a, storage) == Store(Rebound(arr, heap, a, storage))

Call(op, outcome, ret) == [op |-> op, outcome |-> outcome, ret |-> ret]

\* Array.value = v
SetValueDo(a, v, outcome) ==
    /\ IF outcome = "ok"
       THEN Rebind(a, [shape |-> v.shape, data |-> v.data])
       ELSE UNCHANGED <<arr, heap>>
    /\ last' = Call("set_value", outcome, <<>>)
ArraySetValue(a, v) ==
    /\ arr[a].alive
    /\ UNCHANGED <<parameters, objs>>
    /\ SetValueDo(a, v, SetterOutcome(a, v))

\* Array.value (getter)
ArrayGetValue(a) ==
    /\ arr[a].alive
    /\ UNCHANGED <<parameters, objs>>
    /\ UNCHANGED <<arr, heap>>
    /\ last' = Call("get_value", "ok", ArrayValue(a))

\* array.value[i] = x: a write into the array the getter returned
ArraySetItem(a, i, x) ==
    /\ arr[a].alive
    /\ UNCHANGED <<parameters, objs>>
    /\ i \in 1..Len(ArrayValue(a).data)
    /\ heap' = [heap EXCEPT ![arr[a]._value].data[i] = x]
    /\ UNCHANGED arr
    /\ last' = Call("set_item", "ok", <<>>)

\* self._value = (sigma * data).reshape(self.value.shape)
StoreScaled(a, scaled, shape) ==
    IF ReshapeOk(scaled, shape)
    THEN Rebind(a, [shape |-> shape, data |-> scaled])
    ELSE UNCHANGED <<arr, heap>>

\* Array.with_std_data(data)
ArrayWithStdData(a, data) ==
    /\ arr[a].alive
    /\ UNCHANGED <<parameters, objs>>
    /\ StoreScaled(a, Scaled(a, data), ArrayValue(a).shape)
    /\ last' = Call("with_std_data",
                     IF ReshapeOk(data, ArrayValue(a).shape) THEN "ok" ELSE "ValueError",
                     <<>>)

\* Array.to_std_data()
ArrayToStdData(a) ==
    /\ arr[a].alive
    /\ UNCHANGED <<parameters, objs>>
    /\ UNCHANGED <<arr, heap>>
    /\ last' = Call("to_std_data", "ok", ToStdData(a))

\* Parameter.spawn_child(): a new node with the same shape and hyper-parameters
SuperSpawnChild(p) == [arr[p] EXCEPT !.parent = p]

\* Array.spawn_child(): child._value = self.value
SpawnedValue(p) == arr[p]._value
ArraySpawnChild(p, c) ==
    /\ arr[p].alive
    /\ UNCHANGED <<parameters, objs>>
    /\ ~arr[c].alive
    /\ arr' = [arr EXCEPT ![c] = [SuperSpawnChild(p) EXCEPT !._value = SpawnedValue(p)]]
    /\ UNCHANGED heap
    /\ last' = Call("spawn_child", "ok", c)

\* [p.to_std_data() for p in all_p]
RECURSIVE StdDataOf(_)
StdDataOf(ps) ==
    IF ps = <<>> THEN <<>> ELSE <<ToStdData(Head(ps))>> \o StdDataOf(Tail(ps))
SameLengths(vs) == \A k \in 1..Len(vs) : Len(vs[k]) = Len(vs[1])

\* self.with_std_data(np.mean([...], axis=0))
RecombineAverage(a, mean) ==
    /\ \A i \in 1..Len(mean) : InRange(FMul(GetParameterValue(a, "sigma"), mean[i]))
    /\ StoreScaled(a, Scaled(a, mean), ArrayValue(a).shape)
    /\ last' = Call("recombine", "ok", <<>>)

RecombineDoFallback(a, recomb, stds) ==
    IF SameLengths(stds)
    THEN RecombineAverage(a, NpMean(stds))
    ELSE /\ UNCHANGED <<arr, heap>>
         /\ last' = Call("recombine", "ValueError", <<"inhomogeneous shape">>)
RecombineDo(a, recomb, stds) ==
    IF recomb = "average"
    THEN IF SameLengths(stds)
         THEN RecombineAverage(a, NpMean(stds))
         ELSE \* numpy.mean of a ragged list of vectors raises (numpy >= 1.24)
              /\ UNCHANGED <<arr, heap>>
              /\ last' = Call("recombine", "ValueError", <<"inhomogeneous shape">>)
    ELSE /\ UNCHANGED <<arr, heap>>
         /\ last' = Call("recombine", "ValueError", <<"Unknown recombination", recomb>>)

\* Array.recombine(*others)
ArrayRecombine(a, others) ==
    /\ arr[a].alive
    /\ UNCHANGED <<parameters, objs>>
    /\ \A k \in 1..Len(others) : arr[others[k]].alive
    /\ RecombineDo(a, GetParameterValue(a, "recombination"), StdDataOf(<<a>> \o others))

\* Array.__init__: the value starts as numpy.zeros(shape); no hyper-parameter is checked
NewArray(shape, sigma, recomb, ref) ==
    [alive |-> TRUE, shape |-> shape, sigma |-> sigma, recombination |-> recomb,
     _value |-> ref, parent |-> 0]

(***************************************************************************)
(* ParametersList (nevergrad/instrumentation/parameter.py)                 *)
(***************************************************************************)
\* an entry of _parameters: a Parameter (an Array node) or a raw constant;
\* position k of the sequence is the key str(k - 1)
Node(a) == [isParameter |-> TRUE, node |-> a, const |-> <<>>]
Const(c) == [isParameter |-> FALSE, node |-> 0, const |-> c]

\* ParametersList.__init__(*parameters)
NewParametersList(ps) == ps

\* ParametersList.value (getter): one entry per key, in the order of int(key)
ListValue ==
    [k \in 1..Len(parameters) |->
        IF parameters[k].isParameter THEN ArrayValue(parameters[k].node)
        ELSE parameters[k].const]

Into(st, n) == [st EXCEPT !.arr = n.arr, !.heap = n.heap]

\* the loop of the value setter from position k on, over the state
\* st = [arr, heap, parameters, outcome]; an exception ends it
RECURSIVE ListAssign(_, _, _)
RECURSIVE ListAssignNode(_, _, _, _, _)
ListAssign(st, value, k) ==
    IF k > Len(value) THEN st
    ELSE IF k > Len(st.parameters) THEN [st EXCEPT !.outcome = "KeyError"]
    ELSE IF ~st.parameters[k].isParameter
    THEN ListAssign([st EXCEPT !.parameters[k] = Const(value[k])], value, k + 1)
    ELSE ListAssignNode(st, value, k, st.parameters[k].node,
                        SetterCheck(st.heap[st.arr[st.parameters[k].node]._value], value[k]))
\* param.value = val
ListAssignNode(st, value, k, a, outcome) ==
    IF outcome # "ok" THEN [st EXCEPT !.outcome = outcome]
    ELSE ListAssign(Into(st, Rebound(st.arr, st.heap, a,
                                     [shape |-> value[k].shape, data |-> value[k].data])),
                    value, k + 1)

ListStore(st) ==
    /\ arr' = st.arr
    /\ heap' = st.heap
    /\ parameters' = st.parameters
    /\ last' = Call("list_set_value", st.outcome, <<>>)
    /\ UNCHANGED objs

\* ParametersList.value = value (a list)
ListSetValue(value) ==
    /\ parameters # <<>>
    /\ ListStore(ListAssign([arr |-> arr, heap |-> heap, parameters |-> parameters,
                             outcome |-> "ok"], value, 1))

\* ParametersList.value
ListGetValue ==
    /\ parameters # <<>>
    /\ UNCHANGED <<arr, heap, parameters, objs>>
    /\ last' = Call("list_get_value", "ok", ListValue)

(***************************************************************************)
(* Tuple, Instrumentation and FunctionPack                                 *)
(* (nevergrad/parametrization/container.py), over the leaves, the Dict and *)
(* the base Parameter of nevergrad/parametrization/core.py                 *)
(***************************************************************************)
ObjIds == 1..MaxObjs

\* a leaf parameter: a real value and its sigma
Leaf(value, sigma) == [value |-> value, sigma |-> sigma]
LeafSetValue(leaf, v) == [leaf EXCEPT !.value = v]
LeafStdData(leaf) == FDiv(leaf.value, leaf.sigma)
LeafWithStdData(leaf, d) == [leaf EXCEPT !.value = FMul(leaf.sigma, d)]

\* Tuple.__init__(*parameters): the children under the keys 0, 1, ...;
\* position k of the sequence is the key k - 1
NewTuple(ps) == ps

\* Tuple.value (getter)
TupleValue(t) == [k \in 1..Len(t) |-> t[k].value]

\* self[k] finds a child exactly for the keys the Tuple was built with
HasItem(t, k) == k <= Len(t)

\* the loop of the Tuple value setter from position k on; an exception ends it
RECURSIVE TupleAssign(_, _, _)
TupleAssign(t, value, k) ==
    IF k > Len(value) THEN [params |-> t, outcome |-> "ok"]
    ELSE IF ~HasItem(t, k) THEN [params |-> t, outcome |-> "KeyError"]
    ELSE TupleAssign([t EXCEPT ![k] = LeafSetValue(t[k], value[k])], value, k + 1)
TupleSetValue(t, value) == TupleAssign(t, value, 1)

\* Dict.value (getter and setter): the keys must be those of the children
DictValue(d) == [k \in DOMAIN d |-> d[k].value]
DictSetValue(d, value) ==
    IF DOMAIN value # DOMAIN d THEN [params |-> d, outcome |-> "ValueError"]
    ELSE [params |-> [k \in DOMAIN d |-> LeafSetValue(d[k], value[k])], outcome |-> "ok"]

NoObj == [alive |-> FALSE, args |-> <<>>, kwargs |-> <<>>, _compatibility_ |-> 0,
          checkers |-> <<>>]

\* Instrumentation.__init__(*args, **kwargs)
NewInstrumentation(args, kwargs) ==
    [alive |-> TRUE, args |-> NewTuple(args), kwargs |-> kwargs, _compatibility_ |-> 0,
     checkers |-> <<>>]

\* Instrumentation.args, Instrumentation.kwargs and Instrumentation.value
InstrArgs(o) == TupleValue(o.args)
InstrKwargs(o) == DictValue(o.kwargs)
InstrValue(o) == <<InstrArgs(o), InstrKwargs(o)>>

\* the Tuple value setter on an Instrumentation, value = (args, kwargs):
\* child 0, the Tuple of args, is assigned first, then child 1, the Dict
AssignKwargs(o, r) == [obj |-> [o EXCEPT !.kwargs = r.params], outcome |-> r.outcome]
AssignArgs(o, r, kwargs) ==
    IF r.outcome # "ok" THEN [obj |-> [o EXCEPT !.args = r.params], outcome |-> r.outcome]
    ELSE AssignKwargs([o EXCEPT !.args = r.params], DictSetValue(o.kwargs, kwargs))
InstrAssign(o, args, kwargs) == AssignArgs(o, TupleSetValue(o.args, args), kwargs)

\* the keyword names of the instance, in the order of the standardized data
KwargNames == <<"y">>
KeyIndex(n) == CHOOSE i \in 1..Len(KwargNames) : KwargNames[i] = n

\* the standardized data of the tree: the leaves of args, then those of kwargs
RECURSIVE LeavesStdData(_)
LeavesStdData(leaves) ==
    IF leaves = <<>> THEN <<>>
    ELSE <<LeafStdData(Head(leaves))>> \o LeavesStdData(Tail(leaves))
RECURSIVE KwargLeaves(_, _)
KwargLeaves(d, names) ==
    IF names = <<>> THEN <<>> ELSE <<d[Head(names)]>> \o KwargLeaves(d, Tail(names))
GetStandardizedData(o) == LeavesStdData(o.args \o KwargLeaves(o.kwargs, KwargNames))
Dimension(o) == Len(o.args) + Len(KwargNames)
SetStandardizedData(o, data) ==
    [o EXCEPT !.args = [k \in 1..Len(o.args) |-> LeafWithStdData(o.args[k], data[k])],
              !.kwargs = [n \in DOMAIN o.kwargs |->
                            LeafWithStdData(o.kwargs[n], data[Len(o.args) + KeyIndex(n)])]]

\* Parameter.spawn_child(): a new node of the same topology, the value copied in
SpawnChild(o) == [o EXCEPT !._compatibility_ = 0]

\* FunctionPack(func) and FunctionPack.__call__(value): func(*value[0], **value[1])
FuncApply(func, args, kwargs) ==
    IF func = "never" THEN FALSE
    ELSE IF func = "first_is_one" THEN args[1] = F(1)
    ELSE TRUE
FunctionPack(func) == [func |-> func]
FunctionPackCall(pack, value) == FuncApply(pack.func, value[1], value[2])

\* Parameter.register_cheap_constraint and Parameter.satisfies_constraint
RegisterCheapConstraint(o, checker) == [o EXCEPT !.checkers = Append(@, checker)]
SatisfiesConstraint(o) ==
    \A k \in 1..Len(o.checkers) : FunctionPackCall(o.checkers[k], InstrValue(o))

\* the identity of a new object, and the objects still referenced: the
\* instance itself and its memoized copy
FreshObj(o) == LeastOf({i \in ObjIds : ~o[i].alive})
Referenced(o, self) ==
    [i \in ObjIds |-> IF i = self \/ i = o[self]._compatibility_ THEN o[i] ELSE NoObj]

\* Instrumentation._compatibility: the objects once the property was read;
\* the copy is then o[self]._compatibility_
Spawned(o, self, id) ==
    Referenced([o EXCEPT ![self]._compatibility_ = id, ![id] = SpawnChild(o[self])], self)
CompatibilityRespawn(o, self) == Spawned(o, self, FreshObj(o))
Compatibility(o, self) ==
    IF o[self]._compatibility_ = 0 THEN Spawned(o, self, FreshObj(o)) ELSE o

\* the object the conversions write to: self._compatibility
ConversionTargetSelf(o, self) == self
ConversionTarget(o, self) == o[self]._compatibility_

\* Instrumentation.arguments_to_data(*args, **kwargs)
ArgumentsToDataOn(o, id, r) ==
    /\ objs' = [o EXCEPT ![id] = r.obj]
    /\ last' = Call("arguments_to_data", r.outcome,
                    IF r.outcome = "ok" THEN GetStandardizedData(r.obj) ELSE <<>>)
ArgumentsToDataIn(o, id, args, kwargs) ==
    ArgumentsToDataOn(o, id, InstrAssign(o[id], args, kwargs))
ArgumentsToDataWith(o, self, args, kwargs) ==
    ArgumentsToDataIn(o, ConversionTarget(o, self), args, kwargs)
ArgumentsToData(self, args, kwargs) ==
    /\ objs[self].alive
    /\ UNCHANGED <<arr, heap, parameters>>
    /\ ArgumentsToDataWith(Compatibility(objs, self), self, args, kwargs)

\* Instrumentation.data_to_arguments(data)
DataToArgumentsOn(o, id, obj) ==
    /\ objs' = [o EXCEPT ![id] = obj]
    /\ last' = Call("data_to_arguments", "ok", InstrValue(obj))
DataToArgumentsIn(o, id, data) ==
    DataToArgumentsOn(o, id, SetStandardizedData(o[id], data))
DataToArgumentsWith(o, self, data) ==
    DataToArgumentsIn(o, ConversionTarget(o, self), data)
DataToArguments(self, data) ==
    /\ objs[self].alive
    /\ Len(data) = Dimension(objs[self])
    /\ UNCHANGED <<arr, heap, parameters>>
    /\ DataToArgumentsWith(Compatibility(objs, self), self, data)

\* the object cheap_constraint_check works on: child = self.spawn_child()
ConstraintTargetMemo(o, self) ==
    [objs |-> Compatibility(o, self), id |-> Compatibility(o, self)[self]._compatibility_]
ConstraintTarget(o, self) ==
    [objs |-> [o EXCEPT ![FreshObj(o)] = SpawnChild(o[self])], id |-> FreshObj(o)]

\* Instrumentation.cheap_constraint_check(*args, **kwargs); the child is
\* dropped when the call returns
CheapConstraintCheckOn(t, self, r) ==
    /\ objs' = Referenced([t.objs EXCEPT ![t.id] = r.obj], self)
    /\ last' = Call("cheap_constraint_check", r.outcome,
                    IF r.outcome = "ok" THEN SatisfiesConstraint(r.obj) ELSE <<>>)
CheapConstraintCheckIn(t, self, args, kwargs) ==
    CheapConstraintCheckOn(t, self, InstrAssign(t.objs[t.id], args, kwargs))
CheapConstraintCheck(self, args, kwargs) ==
    /\ objs[self].alive
    /\ UNCHANGED <<arr, heap, parameters>>
    /\ CheapConstraintCheckIn(ConstraintTarget(objs, self), self, args, kwargs)

\* Instrumentation.set_cheap_constraint_checker(func)
SetCheapConstraintChecker(self, func) ==
    /\ objs[self].alive
    /\ Len(objs[self].checkers) < MaxCheckers
    /\ objs' = [objs EXCEPT ![self] = RegisterCheapConstraint(@, FunctionPack(func))]
    /\ last' = Call("set_cheap_constraint_checker", "ok", <<>>)
    /\ UNCHANGED <<arr, heap, parameters>>

\* instrumentation.value = (args, kwargs)
InstrSetValueOn(self, r) ==
    /\ objs' = [objs EXCEPT ![self] = r.obj]
    /\ last' = Call("set_value", r.outcome, <<>>)
InstrSetValue(self, args, kwargs) ==
    /\ objs[self].alive
    /\ UNCHANGED <<arr, heap, parameters>>
    /\ InstrSetValueOn(self, InstrAssign(objs[self], args, kwargs))

\* instrumentation.value
InstrGetValue(self) ==
    /\ objs[self].alive
    /\ UNCHANGED <<arr, heap, parameters, objs>>
    /\ last' = Call("get_value", "ok", InstrValue(objs[self]))

\* Instrumentation.get_summary(data)
GetSummary(self) ==
    /\ objs[self].alive
    /\ UNCHANGED <<arr, heap, parameters, objs>>
    /\ last' = Call("get_summary", "RuntimeError", <<>>)

(***************************************************************************)
(* Specification SpecArray: two Array nodes, the second one either built   *)
(* on its own or spawned from the first.                                   *)
(***************************************************************************)
InitArray ==
    /\ \E s1 \in Shapes, g1 \in {F(0), F(2)}, r1 \in Recombinations :
       \E second \in BOOLEAN, s2 \in Shapes, g2 \in {F(0), F(1)} :
          /\ arr = [a \in ArrIds |->
                      IF a = 1 THEN NewArray(s1, g1, r1, 1)
                      ELSE IF a = 2 /\ second THEN NewArray(s2, g2, "average", 2)
                      ELSE NoArray]
          /\ heap = [r \in Refs |->
                      IF r = 1 THEN Zeros(s1)
                      ELSE IF r = 2 /\ second THEN Zeros(s2)
                      ELSE NoStorage]
    /\ last = NoCall
    /\ parameters = <<>>
    /\ objs = [i \in ObjIds |-> NoObj]

ArrayValueInputs ==
    {NdArray(<<1>>, <<F(1)>>), NdArray(<<1, 1>>, <<F(1)>>),
     NdArray(<<2>>, <<F(1), F(2)>>), PyList(<<F(1)>>)}
ArrayDataInputs == {<<F(1)>>, <<F(2), F(1)>>}
ArrayIndexInputs == {1, 2}

\* the lists of other participants a caller may hand to recombine
OthersInputs == {<<>>} \cup {<<b>> : b \in ArrIds}
                \cup {<<b, c>> : b \in ArrIds, c \in ArrIds}

NextArray ==
    \/ \E a \in ArrIds, v \in ArrayValueInputs : ArraySetValue(a, v)
    \/ \E a \in ArrIds : ArrayGetValue(a)
    \/ \E a \in ArrIds, i \in ArrayIndexInputs : ArraySetItem(a, i, F(1))
    \/ \E a \in ArrIds, d \in ArrayDataInputs : ArrayWithStdData(a, d)
    \/ \E a \in ArrIds : ArrayToStdData(a)
    \/ \E p \in ArrIds, c \in ArrIds : ArraySpawnChild(p, c)
    \/ \E a \in ArrIds, others \in OthersInputs : ArrayRecombine(a, others)

SpecArray == InitArray /\ [][NextArray]_vars

(***************************************************************************)
(* Specification SpecStd: one Array node and its standardized-data         *)
(* transform, with the shape (3,) of the documented scenario among the     *)
(* shapes.                                                                 *)
(***************************************************************************)
InitStd ==
    /\ \E s1 \in {<<1>>, <<2>>, <<3>>}, g1 \in {F(0), F(1), F(2)} :
          /\ arr = [a \in ArrIds |->
                      IF a = 1 THEN NewArray(s1, g1, "average", 1) ELSE NoArray]
          /\ heap = [r \in Refs |-> IF r = 1 THEN Zeros(s1) ELSE NoStorage]
    /\ last = NoCall
    /\ parameters = <<>>
    /\ objs = [i \in ObjIds |-> NoObj]

StdValueInputs ==
    {NdArray(<<1>>, <<F(1)>>), NdArray(<<1>>, <<F(3)>>),
     NdArray(<<2>>, <<F(1), F(2)>>), NdArray(<<2>>, <<F(3), F(0)>>),
     NdArray(<<3>>, <<F(2), F(4), F(6)>>), NdArray(<<3>>, <<F(1), F(1), F(3)>>)}
StdDataInputs ==
    {<<F(1)>>, <<F(2)>>, <<F(1), F(2)>>, <<F(2), F(0)>>,
     <<F(1), F(1), F(3)>>, <<F(1), F(2), F(3)>>}

NextStd ==
    \/ \E v \in StdValueInputs : ArraySetValue(1, v)
    \/ ArrayGetValue(1)
    \/ \E i \in 1..3 : ArraySetItem(1, i, F(1))
    \/ \E d \in StdDataInputs : ArrayWithStdData(1, d)
    \/ ArrayWithStdData(1, ToStdData(1))
    \/ ArrayToStdData(1)

SpecStd == InitStd /\ [][NextStd]_vars

(***************************************************************************)
(* Specification SpecList: a ParametersList over two Array nodes, with or  *)
(* without a raw constant as third entry.                                  *)
(***************************************************************************)
InitList ==
    /\ \E s1 \in Shapes, withConst \in BOOLEAN :
          /\ arr = [a \in ArrIds |->
                      IF a = 1 THEN NewArray(s1, F(1), "average", 1)
                      ELSE IF a = 2 THEN NewArray(<<1>>, F(1), "average", 2)
                      ELSE NoArray]
          /\ heap = [r \in Refs |->
                      IF r = 1 THEN Zeros(s1)
                      ELSE IF r = 2 THEN Zeros(<<1>>)
                      ELSE NoStorage]
          /\ parameters = NewParametersList(
                             IF withConst THEN <<Node(1), Node(2), Const(F(0))>>
                             ELSE <<Node(1), Node(2)>>)
    /\ last = NoCall
    /\ objs = [i \in ObjIds |-> NoObj]

ListElems == {NdArray(<<1>>, <<F(1)>>), NdArray(<<1>>, <<F(2)>>),
              NdArray(<<2>>, <<F(1), F(2)>>)}
ListValueInputs == UNION {[1..n -> ListElems] : n \in 0..MaxListLen}

NextList ==
    \/ \E value \in ListValueInputs : ListSetValue(value)
    \/ ListGetValue
    \/ \E a \in ArrIds, v \in ArrayValueInputs : ArraySetValue(a, v)
    \/ \E a \in ArrIds : ArrayGetValue(a)

SpecList == InitList /\ [][NextList]_vars

(***************************************************************************)
(* Specification SpecInstr: one Instrumentation with two positional leaves *)
(* (sigma 2 and sigma 1) and the keyword leaf "y", its memoized copy, and  *)
(* the child a constraint check works on.                                  *)
(***************************************************************************)
InitInstr ==
    /\ objs = [i \in ObjIds |->
                 IF i = 1
                 THEN NewInstrumentation(<<Leaf(F(0), F(2)), Leaf(F(0), F(1))>>,
                                         [n \in {"y"} |-> Leaf(F(0), F(1))])
                 ELSE NoObj]
    /\ arr = [a \in ArrIds |-> NoArray]
    /\ heap = [r \in Refs |-> NoStorage]
    /\ parameters = <<>>
    /\ last = NoCall

ArgsInputs == {<<>>, <<F(1)>>, <<F(2), F(1)>>, <<F(1), F(1), F(1)>>}
KwargsInputs == {[n \in {"y"} |-> F(1)], [n \in {"z"} |-> F(1)]}
DataInputs == {<<F(1), F(0), F(0)>>, <<Frac(1, 2), F(1), F(1)>>}
Funcs == {"never", "first_is_one"}

NextInstr ==
    \/ \E args \in ArgsInputs, kwargs \in KwargsInputs : ArgumentsToData(1, args, kwargs)
    \/ \E data \in DataInputs : DataToArguments(1, data)
    \/ \E args \in ArgsInputs, kwargs \in KwargsInputs : CheapConstraintCheck(1, args, kwargs)
    \/ \E func \in Funcs : SetCheapConstraintChecker(1, func)
    \/ \E args \in ArgsInputs, kwargs \in KwargsInputs : InstrSetValue(1, args, kwargs)
    \/ InstrGetValue(1)
    \/ GetSummary(1)

SpecInstr == InitInstr /\ [][NextInstr]_vars

(***************************************************************************)
(* Claims about Array                                                      *)
(***************************************************************************)
\* the value and the standardized data of node a after the step
ValueAfter(a) == heap'[arr'[a]._value]
StdDataAfter(a) == StdData(ValueAfter(a), arr'[a].sigma)

MutatingCall(x) ==
    \/ \E v \in ArrayValueInputs : ArraySetValue(x, v)
    \/ \E d \in ArrayDataInputs : ArrayWithStdData(x, d)
    \/ \E others \in OthersInputs : ArrayRecombine(x, others)
    \/ \E i \in ArrayIndexInputs : ArraySetItem(x, i, F(1))

\* C1 (as stated): once child = parent.spawn_child(), a mutation of the
\* child's value (setter, with_std_data, recombine, or a write into the array
\* the getter returns) leaves the parent's value unchanged, and a mutation of
\* the parent's value leaves the child's unchanged.
C1_SpawnIsolation ==
    [][\A p \in ArrIds, c \in ArrIds :
          (arr[p].alive /\ arr[c].alive /\ arr[c].parent = p) =>
             /\ MutatingCall(c) => ValueAfter(p) = ArrayValue(p)
             /\ MutatingCall(p) => ValueAfter(c) = ArrayValue(c)]_vars

\* C4 (as stated): with a non-zero sigma, to_std_data() after with_std_data(d)
\* returns d; on ANY array with_std_data(to_std_data()) leaves the value
\* unchanged; the value getter returns the stored array without rescaling.
RoundTripData ==
    \A d \in StdDataInputs :
       (last'.op = "with_std_data" /\ last'.outcome = "ok" /\ arr[1].sigma # F(0)
          /\ ArrayWithStdData(1, d))
          => VecEq(ToStdData(1)', d)
NoRescaleOnValue ==
    \A v \in StdValueInputs :
       (last'.op = "set_value" /\ last'.outcome = "ok" /\ ArraySetValue(1, v))
          => ArrayValue(1)'.data = v.data
C4_Original ==
    [][/\ RoundTripData
       /\ ArrayWithStdData(1, ToStdData(1)) => ArrayValue(1)'.data = ArrayValue(1).data
       /\ NoRescaleOnValue]_vars

\* C4 (amended): with a non-zero sigma, to_std_data() after with_std_data(d)
\* returns d and with_std_data(to_std_data()) leaves the value unchanged; the
\* value getter returns the stored array without rescaling.
C4_RoundTrip ==
    [][/\ RoundTripData
       /\ (ArrayWithStdData(1, ToStdData(1)) /\ arr[1].sigma # F(0))
             => ArrayValue(1)'.data = ArrayValue(1).data
       /\ NoRescaleOnValue]_vars

\* a with_std_data(d) on an array of sigma 2 has stored 2 * d, and
\* to_std_data() gives d back
C4_Witness ==
    /\ last.op = "with_std_data" /\ last.outcome = "ok"
    /\ arr[1].sigma = F(2)
    /\ ArrayValue(1).data = <<F(2), F(4)>>
    /\ ToStdData(1) = <<F(1), F(2)>>

\* C8 (as stated): an Array(shape=(3,), sigma=2.0) holding [2, 4, 6] yields
\* to_std_data() == [1, 1, 3], and with_std_data([1, 1, 3]) on it restores
\* the value [2, 4, 6].
Scenario ==
    /\ arr[1].shape = <<3>> /\ arr[1].sigma = F(2)
    /\ ArrayValue(1).data = <<F(2), F(4), F(6)>>
C8_Original ==
    [][/\ Scenario => VecEq(ToStdData(1), <<F(1), F(1), F(3)>>)
       /\ (Scenario /\ ArrayWithStdData(1, <<F(1), F(1), F(3)>>))
             => VecEq(ArrayValue(1)'.data, <<F(2), F(4), F(6)>>)]_vars

\* C8 (amended): an Array(shape=(3,), sigma=2.0) holding [2, 4, 6] yields
\* to_std_data() == [1, 2, 3], and with_std_data([1, 2, 3]) on it restores
\* the value [2, 4, 6].
C8_Scenario ==
    [][/\ Scenario => VecEq(ToStdData(1), <<F(1), F(2), F(3)>>)
       /\ (arr[1].shape = <<3>> /\ arr[1].sigma = F(2)
             /\ ArrayWithStdData(1, <<F(1), F(2), F(3)>>))
             => VecEq(ArrayValue(1)'.data, <<F(2), F(4), F(6)>>)]_vars

\* the scenario's array after with_std_data([1, 2, 3])
C8_Witness ==
    /\ Scenario
    /\ last.op = "with_std_data" /\ last.outcome = "ok"

\* C6: in every reachable state an Array's stored value has the shape declared
\* at construction and to_std_data() has that fixed length, the declared shape
\* never changes, and assigning a non-array (TypeError) or an array of another
\* shape (ValueError) leaves the stored value unchanged.
ShapeInv ==
    \A a \in ArrIds :
       arr[a].alive =>
          /\ ArrayValue(a).shape = arr[a].shape
          /\ Len(ArrayValue(a).data) = Size(arr[a].shape)
          /\ Len(ToStdData(a)) = Size(arr[a].shape)
SetterRejects ==
    \A a \in ArrIds, v \in ArrayValueInputs :
       (last'.op = "set_value" /\ ArraySetValue(a, v)) =>
          /\ v.kind # "ndarray" => (last'.outcome = "TypeError" /\ UNCHANGED <<arr, heap>>)
          /\ (v.kind = "ndarray" /\ v.shape # arr[a].shape)
                => (last'.outcome = "ValueError" /\ UNCHANGED <<arr, heap>>)
C6_ShapeFixed ==
    [][/\ ShapeInv
       /\ \A a \in ArrIds : arr[a].alive => arr'[a].shape = arr[a].shape
       /\ SetterRejects]_vars

\* an array of another shape was refused while a node holds a value that
\* earlier calls stored
C6_Witness ==
    /\ last.op = "set_value" /\ last.outcome = "ValueError"
    /\ \E a \in ArrIds : arr[a].alive /\ ArrayValue(a).data = <<F(4), F(2)>>

\* the elementwise arithmetic mean of vectors of one length
ArithmeticMean(vs) == VecDiv(VecSum(vs), F(Len(vs)))
Participants(a, others) == {a} \cup {others[k] : k \in 1..Len(others)}

\* C7 (as stated): with the "average" policy, after self.recombine(*others)
\* the standardized data of self is the elementwise mean of the standardized
\* data the participants had before the call, and the others are unchanged.
\* (Equality is read leniently here: nan counts as equal to nan.)
C7_Original ==
    [][\A a \in ArrIds, others \in OthersInputs :
          (last'.op = "recombine" /\ last'.outcome = "ok" /\ ArrayRecombine(a, others))
             => /\ StdDataAfter(a) = ArithmeticMean(StdDataOf(<<a>> \o others))
                /\ \A b \in Participants(a, others) \ {a} :
                      ValueAfter(b) = ArrayValue(b)]_vars

\* C7 (amended): the same, provided the standardized data of every
\* participant is finite, which takes a non-zero sigma (equality is IEEE
\* equality).
AllFinite(v) == \A i \in 1..Len(v) : IsFinite(v[i])
C7_Recombine ==
    [][\A a \in ArrIds, others \in OthersInputs :
          (/\ last'.op = "recombine" /\ last'.outcome = "ok"
           /\ arr[a].alive /\ arr[a].sigma # F(0)
           /\ ArrayRecombine(a, others)
           /\ \A b \in Participants(a, others) : AllFinite(ToStdData(b)))
             => /\ VecEq(StdDataAfter(a), ArithmeticMean(StdDataOf(<<a>> \o others)))
                /\ \A b \in Participants(a, others) \ {a} :
                      ValueAfter(b) = ArrayValue(b)]_vars

\* node 1 (sigma 2, standardized data [2, 1]) recombined with node 2 (sigma 1,
\* value [1, 2]) holds [3, 3], whose standardized data is the mean [3/2, 3/2]
C7_Witness ==
    /\ last.op = "recombine" /\ last.outcome = "ok"
    /\ arr[1].sigma = F(2) /\ arr[2].alive /\ arr[2].sigma = F(1)
    /\ ArrayValue(2).data = <<F(1), F(2)>>
    /\ ArrayValue(1).data = <<F(3), F(3)>>
    /\ ToStdData(1) = <<Frac(3, 2), Frac(3, 2)>>

\* C9: recombine on an Array built with an unrecognized recombination tag
\* raises a ValueError naming the tag and changes no node's value.
C9_UnknownPolicy ==
    [][\A a \in ArrIds, others \in OthersInputs :
          (/\ last'.op = "recombine"
           /\ arr[a].alive /\ arr[a].recombination # "average"
           /\ ArrayRecombine(a, others))
             => /\ last'.outcome = "ValueError"
                /\ last'.ret = <<"Unknown recombination", arr[a].recombination>>
                /\ UNCHANGED <<arr, heap>>]_vars

\* construction accepted the tag "crossover"; recombine with another
\* participant then failed, after the node's value had been set
C9_Witness ==
    /\ arr[1].alive /\ arr[1].recombination = "crossover" /\ arr[2].alive
    /\ last.op = "recombine" /\ last.outcome = "ValueError"
    /\ last.ret = <<"Unknown recombination", "crossover">>
    /\ ArrayValue(1).data = <<F(1), F(2)>>

(***************************************************************************)
(* Claims about ParametersList and Tuple                                   *)
(***************************************************************************)
\* C5 (as stated): assigning to a ParametersList a list whose length differs
\* from the number of entries, shorter or longer, raises at the assignment
\* and changes no entry.
C5_LengthMismatch ==
    [][\A value \in ListValueInputs :
          (/\ last'.op = "list_set_value"
           /\ Len(value) # Len(parameters)
           /\ ListSetValue(value))
             => /\ last'.outcome # "ok"
                /\ UNCHANGED <<arr, heap, parameters>>]_vars

(***************************************************************************)
(* Claims about Instrumentation                                            *)
(***************************************************************************)
Conversion ==
    \/ \E args \in ArgsInputs, kwargs \in KwargsInputs : ArgumentsToData(1, args, kwargs)
    \/ \E data \in DataInputs : DataToArguments(1, data)

\* C2: an arguments_to_data or data_to_arguments call leaves the value and the
\* standardized data of the instance it is called on as they were; the only
\* object it writes to is the memoized copy (besides storing the reference to
\* that copy), so the same holds after any sequence of such calls.
C2_ConversionsFrame ==
    [][(last'.op \in {"arguments_to_data", "data_to_arguments"} /\ Conversion)
          => /\ InstrValue(objs'[1]) = InstrValue(objs[1])
             /\ GetStandardizedData(objs'[1]) = GetStandardizedData(objs[1])
             /\ \A i \in ObjIds \ {objs'[1]._compatibility_} :
                   objs'[i] = [objs[i] EXCEPT !._compatibility_ = objs'[i]._compatibility_]]_vars

\* the instance holds ((2, 1), y = 1) while arguments_to_data has written
\* ((1, 1), y = 1) to the copy
C2_Witness ==
    /\ last.op = "arguments_to_data" /\ last.outcome = "ok"
    /\ objs[1]._compatibility_ = 2 /\ objs[2].alive
    /\ InstrArgs(objs[1]) = <<F(2), F(1)>>
    /\ InstrArgs(objs[2]) = <<F(1), F(1)>>
    /\ last.ret = <<Frac(1, 2), F(1), F(1)>>

\* C3: cheap_constraint_check changes no object that outlives the call: the
\* instance and the memoized copy (value, standardized data, existence) are as
\* before, whatever it returns; and for a full tuple of arguments the result
\* is the conjunction of the registered checkers applied to (args, kwargs).
C3_CheckFrame ==
    [][\A args \in ArgsInputs, kwargs \in KwargsInputs :
          (last'.op = "cheap_constraint_check" /\ CheapConstraintCheck(1, args, kwargs))
             => /\ objs' = objs
                /\ (last'.outcome = "ok" /\ Len(args) = Len(objs[1].args))
                      => last'.ret = (\A k \in 1..Len(objs[1].checkers) :
                                         FuncApply(objs[1].checkers[k].func, args, kwargs))]_vars

\* a check returned False while the memoized copy exists and differs from
\* the instance
C3_Witness ==
    /\ last.op = "cheap_constraint_check" /\ last.outcome = "ok"
    /\ last.ret = FALSE
    /\ objs[1]._compatibility_ = 2 /\ objs[2].alive
    /\ InstrValue(objs[2]) # InstrValue(objs[1])

\* C10: the instance starts without a memoized copy; the copy appears only in
\* an arguments_to_data or data_to_arguments call, the first such call creates
\* it, and once stored the reference never changes and its object stays.
C10_MemoOnce ==
    [][/\ last.op = "init" => objs[1]._compatibility_ = 0
       /\ (objs[1]._compatibility_ = 0 /\ objs'[1]._compatibility_ # 0) => Conversion
       /\ (objs[1]._compatibility_ = 0 /\ Conversion)
             => (objs'[1]._compatibility_ # 0 /\ objs'[objs'[1]._compatibility_].alive)
       /\ objs[1]._compatibility_ # 0
             => /\ objs'[1]._compatibility_ = objs[1]._compatibility_
                /\ objs'[objs[1]._compatibility_].alive]_vars

\* the copy written by data_to_arguments((1, 0, 0)) was written again by a
\* later arguments_to_data((), y = 1)
C10_Witness ==
    /\ last.op = "arguments_to_data" /\ last.outcome = "ok"
    /\ objs[1]._compatibility_ = 2 /\ objs[2].alive
    /\ InstrArgs(objs[2]) = <<F(2), F(0)>>
    /\ InstrKwargs(objs[2])["y"] = F(1)

====
